---- MODULE Spec2Model ----
(***************************************************************************)
(* Model of the weld plugin (plugins/plugins/weld/main.py): the event      *)
(* reporter `output`, the directory merge `weld_dir`, the hook handler     *)
(* `run` and the module body that calls run() and emits set_result.        *)
(*                                                                         *)
(* File and directory names are sequences of tokens, so that the           *)
(* substring test `"weld_pack" in entry` is computed on the name.  Paths   *)
(* are sequences of names.  Text written to stdout is built token by       *)
(* token the way json.dumps and the f-strings build it.                    *)
(***************************************************************************)
EXTENDS Integers, Sequences, FiniteSets, TLC

(***************************************************************************)
(* Bounds of the model.                                                    *)
(***************************************************************************)
\* file contents placed by the user are 1..MaxContent
MaxContent == 2
\* files and pack folders present under the game directory at the start
MaxFiles == 2
\* calls of weld_dir made by the harness specification
MaxPasses == 2
\* user modifications of the directory made between harness passes
MaxEdits == 1

(***************************************************************************)
(* Names and paths.                                                        *)
(***************************************************************************)
Name(s) == <<s>>

UnweldedName == <<"unwelded">>
WeldPackZip == <<"weld_pack", ".zip">>
MyWeldPackZip == <<"my_", "weld_pack", "_v2", ".zip">>
AZip == <<"a", ".zip">>
BZip == <<"b", ".zip">>

\* names a user can give a pack that do not contain the reserved word
PackNames == {AZip, BZip}
\* every file name of the model
FileNames == PackNames \cup {WeldPackZip, MyWeldPackZip}

\* Path.joinpath(name)
joinpath(p, n) == Append(p, n)

game_dir == <<Name("game")>>
SavesDir == joinpath(game_dir, Name("saves"))
WorldDatapacks == joinpath(joinpath(game_dir, Name("world")), Name("datapacks"))
Resourcepacks == joinpath(game_dir, Name("resourcepacks"))
OverrideName == Name("dp")
OverrideDir == joinpath(game_dir, OverrideName)

\* the directories weld_dir can be called on
ContentDirs == {WorldDatapacks, Resourcepacks, OverrideDir}

\* variant of HasWeldPack: nothing is reserved
HasWeldPack_Never(entry) == FALSE

\* `"weld_pack" in entry`
HasWeldPack(entry) == \E i \in 1..Len(entry) : entry[i] = "weld_pack"

(***************************************************************************)
(* JSON values and json.dumps.  A text is a sequence of tokens; the tokens *)
(* "\"" and "\\" are the two characters json.dumps escapes.                *)
(***************************************************************************)
JNull == [t |-> "null"]
JStr(text) == [t |-> "str", s |-> text]
JArr(items) == [t |-> "arr", items |-> items]
JObj(pairs) == [t |-> "obj", pairs |-> pairs]

RECURSIVE Join(_)
Join(text) == IF text = <<>> THEN "" ELSE Head(text) \o Join(Tail(text))

\* variant of Escape: quotes and backslashes are copied as they are
Escape_None(text) == text

RECURSIVE Escape(_)
Escape(text) ==
  IF text = <<>> THEN <<>>
  ELSE (IF Head(text) \in {"\"", "\\"} THEN <<"\\", Head(text)>> ELSE <<Head(text)>>)
       \o Escape(Tail(text))

RECURSIVE dumps(_), DumpsItems(_), DumpsPairs(_)
dumps(v) ==
  CASE v.t = "null" -> <<"null">>
    [] v.t = "str" -> <<"\"">> \o Escape(v.s) \o <<"\"">>
    [] v.t = "arr" -> <<"[">> \o DumpsItems(v.items) \o <<"]">>
    [] v.t = "obj" -> <<"{">> \o DumpsPairs(v.pairs) \o <<"}">>

DumpsItems(items) ==
  IF items = <<>> THEN <<>>
  ELSE dumps(Head(items))
       \o (IF Len(items) > 1 THEN <<", ">> ELSE <<>>)
       \o DumpsItems(Tail(items))

DumpsPairs(pairs) ==
  IF pairs = <<>> THEN <<>>
  ELSE <<"\"">> \o Escape(Head(pairs)[1]) \o <<"\"", ": ">> \o dumps(Head(pairs)[2])
       \o (IF Len(pairs) > 1 THEN <<", ">> ELSE <<>>)
       \o DumpsPairs(Tail(pairs))

\* output(method, data): the line printed
OutputLine(method, data) ==
  IF data = JNull
    THEN Join(<<"%_", "\"", method, "\"">>)
    ELSE Join(<<"%_">> \o dumps(JObj(<<<<<<method>>, data>>>>)))

output(method, data) == [method |-> method, line |-> OutputLine(method, data)]

StartMessage ==
  JObj(<< <<<<"contents">>, JObj(<< <<<<"StartProcess">>, JStr(<<"Welding packs">>)>> >>)>>,
          <<<<"level">>, JStr(<<"important">>)>> >>)

SuccessMessage ==
  JObj(<< <<<<"contents">>, JObj(<< <<<<"Success">>, JStr(<<"Packs welded">>)>> >>)>>,
          <<<<"level">>, JStr(<<"important">>)>> >>)

ResultObject ==
  JObj(<< <<<<"main_class_override">>, JNull>>,
          <<<<"jar_path_override">>, JNull>>,
          <<<<"classpath_extension">>, JArr(<<>>)>> >>)

\* the second argument of output("set_result", json.dumps({...}))
SetResultData == JStr(dumps(ResultObject))

(***************************************************************************)
(* The file system under game_dir.  A content directory is a record:       *)
(* exists (the directory is on disk), unwelded (it has the child directory *)
(* "unwelded"), loose (its regular files, name -> content), held (the      *)
(* regular files of unwelded/), dirs (its other child directories).        *)
(***************************************************************************)
User(c) == [kind |-> "user", id |-> c, src |-> {}]
Merged(src) == [kind |-> "merged", id |-> 0, src |-> src]
NoContent == [kind |-> "none", id |-> 0, src |-> {}]

SubdirNames == {Name("folder")}

NoFiles == [n \in {} |-> NoContent]

MissingDir == [exists |-> FALSE, unwelded |-> FALSE, loose |-> NoFiles, held |-> NoFiles, dirs |-> {}]

PartialFns(S, C) == UNION {[T -> C] : T \in SUBSET S}

DirStates(LN, HN, SN, C) ==
  {MissingDir} \cup
  {[exists |-> TRUE, unwelded |-> u, loose |-> l, held |-> h, dirs |-> s] :
      u \in BOOLEAN, l \in PartialFns(LN, C), h \in PartialFns(HN, C), s \in SUBSET SN}

FileCount(D) == Cardinality(DOMAIN D.loose) + Cardinality(DOMAIN D.held) + Cardinality(D.dirs)

\* a directory state that can be on disk: files of unwelded/ need unwelded/
WellFormedDir(D) == (~D.unwelded => D.held = NoFiles) /\ FileCount(D) <= MaxFiles

UserContents == {User(c) : c \in 1..MaxContent}

\* os.listdir(dir)
listdir(D) == DOMAIN D.loose \cup D.dirs \cup (IF D.unwelded THEN {UnweldedName} ELSE {})

\* os.listdir(unwelded_path)
listdir_unwelded(D) == DOMAIN D.held

\* path.is_file()
is_file(D, entry) == entry \in DOMAIN D.loose

\* target.exists()
target_exists(D, entry) == entry \in DOMAIN D.held

Without(f, n) == [x \in DOMAIN f \ {n} |-> f[x]]
With(f, n, c) == [x \in DOMAIN f \cup {n} |-> IF x = n THEN c ELSE f[x]]

\* os.mkdir(unwelded_path)
mkdir_unwelded(D) == [D EXCEPT !.unwelded = TRUE]

\* os.remove(target)
remove_target(D, entry) == [D EXCEPT !.held = Without(D.held, entry)]

\* variant of rename_to_target: the file is copied, the source stays
rename_keeps_source(D, entry) ==
  [D EXCEPT !.held = With(D.held, entry, D.loose[entry])]

\* variant of rename_to_target: the file is moved to a path outside unwelded
rename_to_wrong_target(D, entry) ==
  [D EXCEPT !.loose = Without(D.loose, entry)]

\* os.rename(path, target)
rename_to_target(D, entry) ==
  [D EXCEPT !.loose = Without(D.loose, entry),
            !.held = With(D.held, entry, D.loose[entry])]

\* what a path names on disk: <<kind, content>>
NodeAt(F, p) ==
  LET parent == SubSeq(p, 1, Len(p) - 1)
      n == p[Len(p)]
      grand == SubSeq(p, 1, Len(p) - 2)
  IN  IF parent \in ContentDirs /\ F[parent].exists
        THEN IF n \in DOMAIN F[parent].loose THEN <<"file", F[parent].loose[n]>>
             ELSE IF n \in listdir(F[parent]) THEN <<"dir", NoContent>>
             ELSE <<"missing", NoContent>>
      ELSE IF Len(p) >= 2 /\ grand \in ContentDirs /\ parent = joinpath(grand, UnweldedName)
              /\ F[grand].unwelded /\ n \in DOMAIN F[grand].held
        THEN <<"file", F[grand].held[n]>>
      ELSE <<"missing", NoContent>>

\* packs = [dir.joinpath(x) for x in os.listdir(unwelded_path)]
PackPaths(dir, D) == {joinpath(dir, x) : x \in listdir_unwelded(D)}

\* the pack data run_weld returns: a deterministic function of the pack
\* paths and of what they name on disk
run_weld(F, ps) == Merged({<<p, NodeAt(F, p)[1], NodeAt(F, p)[2]>> : p \in ps})

\* ctx.data.save(path=dir.joinpath("weld_pack.zip"), overwrite=True)
save_artifact(D, data) == [D EXCEPT !.loose = With(D.loose, WeldPackZip, data)]

(***************************************************************************)
(* The invocation: sys.argv and the saves directory of the instance.       *)
(***************************************************************************)
RecognizedHook == "on_instance_setup"
Hooks == {RecognizedHook, "on_instance_launch"}

\* datapack_folder: <<>> is None, <<n>> is the folder name n
Folders == {<<>>, <<OverrideName>>, <<Name("resourcepacks")>>}

Args ==
  {[ok |-> FALSE, update_depth |-> "", side |-> "", datapack_folder |-> <<>>]} \cup
  [ok : {TRUE}, update_depth : {"shallow", "full"}, side : {"client", "server"},
   datapack_folder : Folders]

Argvs == [hook : Hooks, arg : Args]

SaveA == Name("A")
SaveB == Name("B")
\* the directory tree below game_dir/saves, as paths relative to it
SavesStates ==
  {[exists |-> FALSE, tree |-> {}],
   [exists |-> TRUE, tree |-> {}],
   [exists |-> TRUE, tree |-> {<<SaveA>>, <<SaveB>>, <<SaveA, Name("nested")>>}]}

\* next(os.walk(saves_dir))[1]
ImmediateSubdirs(S) == {p[1] : p \in {q \in S.tree : Len(q) = 1}}

\* variant of ResolveDirs: datapack_folder is not looked at
ResolveDirs_NoOverride(arg, S) ==
  LET rp == <<joinpath(game_dir, Name("resourcepacks"))>>
  IN  IF arg.side = "client"
        THEN IF ~S.exists
               THEN [exc |-> "StopIteration", datapack_dirs |-> <<>>, resourcepack_dirs |-> <<>>]
             ELSE IF ImmediateSubdirs(S) # {}
               THEN [exc |-> "AttributeError", datapack_dirs |-> <<>>, resourcepack_dirs |-> <<>>]
             ELSE [exc |-> "", datapack_dirs |-> <<>>, resourcepack_dirs |-> rp]
      ELSE [exc |-> "", datapack_dirs |-> <<WorldDatapacks>>, resourcepack_dirs |-> rp]

\* variant of ResolveDirs: the saves are walked on both sides
ResolveDirs_IgnoreSide(arg, S) ==
  LET rp == <<joinpath(game_dir, Name("resourcepacks"))>>
  IN  IF arg.datapack_folder # <<>>
        THEN [exc |-> "", datapack_dirs |-> <<game_dir \o arg.datapack_folder>>,
              resourcepack_dirs |-> rp]
      ELSE IF ~S.exists
        THEN [exc |-> "StopIteration", datapack_dirs |-> <<>>, resourcepack_dirs |-> <<>>]
      ELSE IF ImmediateSubdirs(S) # {}
        THEN [exc |-> "AttributeError", datapack_dirs |-> <<>>, resourcepack_dirs |-> <<>>]
      ELSE [exc |-> "", datapack_dirs |-> <<>>, resourcepack_dirs |-> rp]

\* lines 69-85 of run(): the exception raised (if any) and the lists built
ResolveDirs(arg, S) ==
  LET rp == <<joinpath(game_dir, Name("resourcepacks"))>>
  IN  IF arg.datapack_folder # <<>>
        THEN [exc |-> "", datapack_dirs |-> <<game_dir \o arg.datapack_folder>>,
              resourcepack_dirs |-> rp]
      ELSE IF arg.side = "client"
        THEN IF ~S.exists
               \* os.walk yields nothing for a missing directory
               THEN [exc |-> "StopIteration", datapack_dirs |-> <<>>, resourcepack_dirs |-> <<>>]
             ELSE IF ImmediateSubdirs(S) # {}
               \* Path has no method `join`: the first iteration raises
               THEN [exc |-> "AttributeError", datapack_dirs |-> <<>>, resourcepack_dirs |-> <<>>]
             ELSE [exc |-> "", datapack_dirs |-> <<>>, resourcepack_dirs |-> rp]
      ELSE [exc |-> "", datapack_dirs |-> <<WorldDatapacks>>, resourcepack_dirs |-> rp]

(***************************************************************************)
(* State.                                                                  *)
(*   argv, saves   the invocation and the saves tree (never written)       *)
(*   fs            the content directories; fs0 is fs at process start     *)
(*   pc, exc       position in run() / the module body; uncaught exception *)
(*   events        the lines printed, in order                             *)
(*   log           events and weld_dir calls, in order                     *)
(*   datapack_dirs, resourcepack_dirs, di   the locals of run()            *)
(*   wpc, wdir, todo, cur, packs            position and locals of weld_dir*)
(*                 (wpc is "idle" when no call is in progress and the      *)
(*                 directory is not as the last call left it)              *)
(*   pre           fs[wdir] when the current call of weld_dir began        *)
(*   lastEnd       the directory and its state when weld_dir last returned *)
(*   follows       the current call began in exactly that state            *)
(*   origin        when the current call retries a call in which run_weld  *)
(*                 raised: the directory when the first such call began    *)
(*   passes, edits counters of the harness                                 *)
(***************************************************************************)
VARIABLES argv, saves, fs, fs0, pc, exc, events, log,
          datapack_dirs, resourcepack_dirs, di,
          wpc, wdir, todo, cur, packs, pre, lastEnd, follows, origin, passes, edits

vars == <<argv, saves, fs, fs0, pc, exc, events, log,
          datapack_dirs, resourcepack_dirs, di,
          wpc, wdir, todo, cur, packs, pre, lastEnd, follows, origin, passes, edits>>

inputs == <<argv, saves, fs0>>
runLocals == <<datapack_dirs, resourcepack_dirs, di>>
weldLocals == <<wpc, wdir, todo, cur, packs>>
weldHistory == <<pre, lastEnd, follows, origin, passes>>

LogEmit(ev) == [op |-> "emit", line |-> ev.line, dir |-> <<>>]
LogWeld(op, dir) == [op |-> op, line |-> "", dir |-> dir]

\* directory states the hook specification starts from
HookDirs == {D \in DirStates({AZip}, {AZip}, {}, {User(1)}) : WellFormedDir(D)}

\* directory states the harness specification starts from
HarnessDirs == {D \in DirStates(FileNames, PackNames, SubdirNames, UserContents) : WellFormedDir(D)}

HarnessDir == Resourcepacks

InitLocals ==
  /\ exc = ""
  /\ events = <<>>
  /\ log = <<>>
  /\ datapack_dirs = <<>>
  /\ resourcepack_dirs = <<>>
  /\ di = 0
  /\ wpc = "idle"
  /\ wdir = <<>>
  /\ todo = {}
  /\ cur = <<>>
  /\ packs = {}
  /\ pre = MissingDir
  /\ lastEnd = [valid |-> FALSE, path |-> <<>>, rec |-> MissingDir]
  /\ follows = FALSE
  /\ origin = [valid |-> FALSE, rec |-> MissingDir]
  /\ passes = 0
  /\ edits = 0

\* one invocation of the plugin by the host
Init ==
  /\ argv \in Argvs
  /\ saves \in SavesStates
  /\ fs \in {F \in [ContentDirs -> HookDirs] :
               FileCount(F[WorldDatapacks]) + FileCount(F[Resourcepacks])
                 + FileCount(F[OverrideDir]) <= MaxFiles}
  /\ fs0 = fs
  /\ pc = "run"
  /\ InitLocals

(***************************************************************************)
(* weld_dir(dir)                                                           *)
(***************************************************************************)
\* the call: enter weld_dir with dir = d
CallWeld(d) ==
  /\ wpc' = "mkdir"
  /\ wdir' = d
  /\ todo' = {}
  /\ cur' = <<>>
  /\ packs' = {}
  /\ pre' = fs[d]
  /\ follows' = (lastEnd.valid /\ lastEnd.path = d /\ lastEnd.rec = fs[d])
  /\ origin' = IF wpc = "raised" /\ exc = "WeldError" /\ wdir = d
                 THEN [valid |-> TRUE, rec |-> IF origin.valid THEN origin.rec ELSE pre]
                 ELSE [valid |-> FALSE, rec |-> MissingDir]
  /\ passes' = passes + 1
  /\ log' = Append(log, LogWeld("weld_begin", d))
  /\ exc' = ""
  /\ UNCHANGED <<lastEnd, fs, events>>

\* variant of Raise: the exception is caught and the call returns
Raise_Swallowed(e) ==
  /\ wpc' = "returned"
  /\ exc' = e
  /\ pc' = pc

\* an exception leaves weld_dir; nothing in run() or the module body
\* catches it
Raise(e) ==
  /\ wpc' = "raised"
  /\ exc' = e
  /\ pc' = IF pc = "harness" THEN pc ELSE "crashed"

\* lines 26-28
W_Mkdir ==
  /\ wpc = "mkdir"
  /\ LET D == fs[wdir]
     IN  IF D.unwelded
           THEN /\ wpc' = "listdir"
                /\ UNCHANGED <<fs, pc, exc>>
         ELSE IF ~D.exists
           \* os.mkdir does not create the parent
           THEN /\ Raise("FileNotFoundError")
                /\ UNCHANGED fs
         ELSE /\ fs' = [fs EXCEPT ![wdir] = mkdir_unwelded(D)]
              /\ wpc' = "listdir"
              /\ UNCHANGED <<pc, exc>>
  /\ UNCHANGED <<inputs, events, log, runLocals, wdir, todo, cur, packs, weldHistory, edits>>

\* line 30: the listing is taken once, before the loop
W_Listdir ==
  /\ wpc = "listdir"
  /\ todo' = listdir(fs[wdir])
  /\ wpc' = "loop"
  /\ UNCHANGED <<inputs, fs, pc, exc, events, log, runLocals, wdir, cur, packs, weldHistory, edits>>

\* variant of W_Entry: a file whose target exists is left where it is
W_Entry_SkipExisting ==
  /\ wpc = "loop"
  /\ \E entry \in todo :
       LET D == fs[wdir]
       IN  /\ todo' = todo \ {entry}
           /\ IF HasWeldPack(entry) \/ ~is_file(D, entry) \/ target_exists(D, entry)
                THEN UNCHANGED <<fs, wpc, cur>>
              ELSE /\ fs' = [fs EXCEPT ![wdir] = rename_to_target(D, entry)]
                   /\ UNCHANGED <<wpc, cur>>
  /\ UNCHANGED <<inputs, pc, exc, events, log, runLocals, wdir, packs, weldHistory, edits>>

\* lines 30-39, one entry of the listing (os.listdir orders arbitrarily).
\* When the target exists the iteration does os.remove here and os.rename
\* in W_Rename.
W_Entry ==
  /\ wpc = "loop"
  /\ \E entry \in todo :
       LET D == fs[wdir]
       IN  /\ todo' = todo \ {entry}
           /\ IF HasWeldPack(entry)
                THEN UNCHANGED <<fs, wpc, cur>>
              ELSE IF is_file(D, entry)
                THEN IF target_exists(D, entry)
                       THEN /\ fs' = [fs EXCEPT ![wdir] = remove_target(D, entry)]
                            /\ cur' = entry
                            /\ wpc' = "rename"
                       ELSE /\ fs' = [fs EXCEPT ![wdir] = rename_to_target(D, entry)]
                            /\ UNCHANGED <<wpc, cur>>
              ELSE UNCHANGED <<fs, wpc, cur>>
  /\ UNCHANGED <<inputs, pc, exc, events, log, runLocals, wdir, packs, weldHistory, edits>>

\* variant of W_Rename: the rename after os.remove is left out
W_Rename_Lost ==
  /\ wpc = "rename"
  /\ cur' = <<>>
  /\ wpc' = "loop"
  /\ UNCHANGED <<inputs, fs, pc, exc, events, log, runLocals, wdir, todo, packs, weldHistory, edits>>

\* line 39 after line 38
W_Rename ==
  /\ wpc = "rename"
  /\ fs' = [fs EXCEPT ![wdir] = rename_to_target(fs[wdir], cur)]
  /\ cur' = <<>>
  /\ wpc' = "loop"
  /\ UNCHANGED <<inputs, pc, exc, events, log, runLocals, wdir, todo, packs, weldHistory, edits>>

\* lines 38-39: os.remove or os.rename raises (permission denied, ...);
\* the file the call was made for stays where it was
W_FsError ==
  /\ \/ wpc = "rename"
     \/ /\ wpc = "loop"
        /\ \E entry \in todo : ~HasWeldPack(entry) /\ is_file(fs[wdir], entry)
  /\ Raise("PermissionError")
  /\ UNCHANGED <<inputs, fs, events, log, runLocals, wdir, todo, cur, packs, weldHistory, edits>>

\* lines 42-45
W_Packs ==
  /\ wpc = "loop"
  /\ todo = {}
  /\ packs' = PackPaths(wdir, fs[wdir])
  /\ wpc' = "run_weld"
  /\ UNCHANGED <<inputs, fs, pc, exc, events, log, runLocals, wdir, todo, cur, weldHistory, edits>>

\* lines 46-47: run_weld returns and the pack data is saved
W_RunWeldOk ==
  /\ wpc = "run_weld"
  /\ fs' = [fs EXCEPT ![wdir] = save_artifact(fs[wdir], run_weld(fs, packs))]
  /\ wpc' = "returned"
  /\ lastEnd' = [valid |-> TRUE, path |-> wdir, rec |-> fs'[wdir]]
  /\ log' = Append(log, LogWeld("weld_end", wdir))
  /\ UNCHANGED <<inputs, pc, exc, events, runLocals, wdir, todo, cur, packs, pre, follows, origin, passes, edits>>

\* variant of W_RunWeldRaise: the pack data is written before the failure
W_RunWeldRaise_Partial ==
  /\ wpc = "run_weld"
  /\ Raise("WeldError")
  /\ fs' = [fs EXCEPT ![wdir] = save_artifact(fs[wdir], Merged({}))]
  /\ UNCHANGED <<inputs, events, log, runLocals, wdir, todo, cur, packs, weldHistory, edits>>

\* variant of W_RunWeldRaise: the failure handler empties what the call
\* had put into unwelded
W_RunWeldRaise_Cleanup ==
  /\ wpc = "run_weld"
  /\ Raise("WeldError")
  /\ fs' = [fs EXCEPT ![wdir].held = pre.held]
  /\ UNCHANGED <<inputs, events, log, runLocals, wdir, todo, cur, packs, weldHistory, edits>>

\* line 46: run_weld raises
W_RunWeldRaise ==
  /\ wpc = "run_weld"
  /\ Raise("WeldError")
  /\ UNCHANGED <<inputs, fs, events, log, runLocals, wdir, todo, cur, packs, weldHistory, edits>>

(***************************************************************************)
(* run() and the module body                                               *)
(***************************************************************************)
\* variant of Run_Hook: every hook is handled
Run_Hook_Any ==
  /\ pc = "run"
  /\ pc' = "parse"
  /\ UNCHANGED <<inputs, fs, exc, events, log, runLocals, weldLocals, weldHistory, edits>>

\* lines 50-52
Run_Hook ==
  /\ pc = "run"
  /\ pc' = IF argv.hook # RecognizedHook THEN "set_result" ELSE "parse"
  /\ UNCHANGED <<inputs, fs, exc, events, log, runLocals, weldLocals, weldHistory, edits>>

\* variant of Run_Parse: update_depth is not looked at
Run_Parse_NoShallow ==
  /\ pc = "parse"
  /\ IF ~argv.arg.ok
       THEN /\ pc' = "crashed"
            /\ exc' = "JSONDecodeError"
     ELSE /\ pc' = "start"
          /\ UNCHANGED exc
  /\ UNCHANGED <<inputs, fs, events, log, runLocals, weldLocals, weldHistory, edits>>

\* lines 54-59
Run_Parse ==
  /\ pc = "parse"
  /\ IF ~argv.arg.ok
       THEN /\ pc' = "crashed"
            /\ exc' = "JSONDecodeError"
     ELSE /\ pc' = IF argv.arg.update_depth = "shallow" THEN "set_result" ELSE "start"
          /\ UNCHANGED exc
  /\ UNCHANGED <<inputs, fs, events, log, runLocals, weldLocals, weldHistory, edits>>

\* lines 61-67
Run_Start ==
  /\ pc = "start"
  /\ events' = events \o <<output("start_process", JNull), output("message", StartMessage)>>
  /\ log' = log \o <<LogEmit(output("start_process", JNull)), LogEmit(output("message", StartMessage))>>
  /\ pc' = "resolve"
  /\ UNCHANGED <<inputs, fs, exc, runLocals, weldLocals, weldHistory, edits>>

\* lines 69-85
Run_Resolve ==
  /\ pc = "resolve"
  /\ LET r == ResolveDirs(argv.arg, saves)
     IN  IF r.exc # ""
           THEN /\ pc' = "crashed"
                /\ exc' = r.exc
                /\ UNCHANGED runLocals
         ELSE /\ datapack_dirs' = r.datapack_dirs
              /\ resourcepack_dirs' = r.resourcepack_dirs
              /\ di' = 1
              /\ pc' = "weld_datapacks"
              /\ UNCHANGED exc
  /\ UNCHANGED <<inputs, fs, events, log, weldLocals, weldHistory, edits>>

\* lines 88-89, one iteration
Run_WeldDatapack ==
  /\ pc = "weld_datapacks"
  /\ wpc \in {"idle", "returned"}
  /\ di <= Len(datapack_dirs)
  /\ CallWeld(datapack_dirs[di])
  /\ di' = di + 1
  /\ UNCHANGED <<inputs, pc, datapack_dirs, resourcepack_dirs, edits>>

\* variant of Run_DatapacksDone: the loop over resourcepack_dirs is left out
Run_DatapacksDone_SkipRest ==
  /\ pc = "weld_datapacks"
  /\ wpc \in {"idle", "returned"}
  /\ di > Len(datapack_dirs)
  /\ di' = Len(resourcepack_dirs) + 1
  /\ pc' = "weld_resourcepacks"
  /\ UNCHANGED <<inputs, fs, exc, events, log, datapack_dirs, resourcepack_dirs, weldLocals, weldHistory, edits>>

\* the loop of line 88 ends
Run_DatapacksDone ==
  /\ pc = "weld_datapacks"
  /\ wpc \in {"idle", "returned"}
  /\ di > Len(datapack_dirs)
  /\ di' = 1
  /\ pc' = "weld_resourcepacks"
  /\ UNCHANGED <<inputs, fs, exc, events, log, datapack_dirs, resourcepack_dirs, weldLocals, weldHistory, edits>>

\* lines 91-92, one iteration
Run_WeldResourcepack ==
  /\ pc = "weld_resourcepacks"
  /\ wpc \in {"idle", "returned"}
  /\ di <= Len(resourcepack_dirs)
  /\ CallWeld(resourcepack_dirs[di])
  /\ di' = di + 1
  /\ UNCHANGED <<inputs, pc, datapack_dirs, resourcepack_dirs, edits>>

\* lines 94-100
Run_Finish ==
  /\ pc = "weld_resourcepacks"
  /\ wpc \in {"idle", "returned"}
  /\ di > Len(resourcepack_dirs)
  /\ events' = events \o <<output("message", SuccessMessage), output("end_process", JNull)>>
  /\ log' = log \o <<LogEmit(output("message", SuccessMessage)), LogEmit(output("end_process", JNull))>>
  /\ pc' = "set_result"
  /\ UNCHANGED <<inputs, fs, exc, runLocals, weldLocals, weldHistory, edits>>

\* variant of Main_SetResult: the module body prints nothing
Main_NoSetResult ==
  /\ pc = "set_result"
  /\ pc' = "done"
  /\ UNCHANGED <<inputs, fs, exc, events, log, runLocals, weldLocals, weldHistory, edits>>

\* lines 104-108, reached when run() returned
Main_SetResult ==
  /\ pc = "set_result"
  /\ events' = Append(events, output("set_result", SetResultData))
  /\ log' = Append(log, LogEmit(output("set_result", SetResultData)))
  /\ pc' = "done"
  /\ UNCHANGED <<inputs, fs, exc, runLocals, weldLocals, weldHistory, edits>>

Next ==
  \/ Run_Hook
  \/ Run_Parse
  \/ Run_Start
  \/ Run_Resolve
  \/ Run_WeldDatapack
  \/ Run_DatapacksDone
  \/ Run_WeldResourcepack
  \/ Run_Finish
  \/ Main_SetResult
  \/ W_Mkdir
  \/ W_Listdir
  \/ W_Entry
  \/ W_Rename
  \/ W_FsError
  \/ W_Packs
  \/ W_RunWeldOk
  \/ W_RunWeldRaise

Spec == Init /\ [][Next]_vars

(***************************************************************************)
(* Harness: weld_dir called repeatedly on one content directory, the user  *)
(* adding loose files or deleting the merged artifact between calls.  The  *)
(* file system of the harness refuses no operation.                        *)
(***************************************************************************)
InitWeld ==
  /\ argv = [hook |-> RecognizedHook,
             arg |-> [ok |-> TRUE, update_depth |-> "full", side |-> "server",
                      datapack_folder |-> <<>>]]
  /\ saves = [exists |-> FALSE, tree |-> {}]
  /\ fs \in {[d \in ContentDirs |-> IF d = HarnessDir THEN D ELSE MissingDir] : D \in HarnessDirs}
  /\ fs0 = fs
  /\ pc = "harness"
  /\ InitLocals

Harness_Call ==
  /\ pc = "harness"
  /\ wpc \in {"idle", "returned", "raised"}
  /\ passes < MaxPasses
  /\ CallWeld(HarnessDir)
  /\ UNCHANGED <<inputs, pc, runLocals, edits>>

\* the content of a file the user drops between two calls; the files
\* present at the start carry any content, so the new file equals or differs
\* from a quarantined copy
DroppedContent == User(MaxContent)

\* between two calls the user drops a file into the content directory
User_AddLoose ==
  /\ pc = "harness"
  /\ wpc \in {"idle", "returned", "raised"}
  /\ passes >= 1
  /\ edits < MaxEdits
  /\ fs[HarnessDir].exists
  /\ \E n \in FileNames :
       fs' = [fs EXCEPT ![HarnessDir].loose = With(@, n, DroppedContent)]
  /\ edits' = edits + 1
  /\ wpc' = "idle"
  /\ UNCHANGED <<inputs, pc, exc, events, log, runLocals, wdir, todo, cur, packs, weldHistory>>

\* between two calls the user deletes the merged artifact
User_RemoveArtifact ==
  /\ pc = "harness"
  /\ wpc \in {"idle", "returned", "raised"}
  /\ passes >= 1
  /\ edits < MaxEdits
  /\ WeldPackZip \in DOMAIN fs[HarnessDir].loose
  /\ fs' = [fs EXCEPT ![HarnessDir].loose = Without(@, WeldPackZip)]
  /\ edits' = edits + 1
  /\ wpc' = "idle"
  /\ UNCHANGED <<inputs, pc, exc, events, log, runLocals, wdir, todo, cur, packs, weldHistory>>

NextWeld ==
  \/ Harness_Call
  \/ User_AddLoose
  \/ User_RemoveArtifact
  \/ W_Mkdir
  \/ W_Listdir
  \/ W_Entry
  \/ W_Rename
  \/ W_Packs
  \/ W_RunWeldOk
  \/ W_RunWeldRaise

SpecWeld == InitWeld /\ [][NextWeld]_vars

(***************************************************************************)
(* Properties                                                              *)
(***************************************************************************)
Held == fs[wdir].held
Loose == fs[wdir].loose

MethodCount(m) == Cardinality({i \in 1..Len(events) : events[i].method = m})

FullRun ==
  /\ argv.hook = RecognizedHook
  /\ argv.arg.ok
  /\ argv.arg.update_depth # "shallow"

IsPrefix(a, b) == Len(a) <= Len(b) /\ a = SubSeq(b, 1, Len(a))

\* C1 as stated: after a pass every file that was loose (the merged artifact
\* apart) is in the holding area with its content, and only the merged
\* artifact weld_pack.zip is still loose.
C1_Original ==
  wpc = "returned" =>
    /\ \A n \in DOMAIN pre.loose \ {WeldPackZip} :
         n \in DOMAIN Held /\ Held[n] = pre.loose[n]
    /\ DOMAIN Loose \subseteq {WeldPackZip}

\* C1 amended: after a pass every file that was loose and whose name does
\* not contain "weld_pack" is in the holding area with its content and is no
\* longer loose; every file still loose has a name containing "weld_pack".
C1_NonLoss ==
  wpc = "returned" =>
    /\ \A n \in DOMAIN pre.loose :
         ~HasWeldPack(n) => n \in DOMAIN Held /\ Held[n] = pre.loose[n] /\ n \notin DOMAIN Loose
    /\ \A n \in DOMAIN Loose : HasWeldPack(n)

C1_Witness ==
  /\ wpc = "returned"
  /\ AZip \in DOMAIN pre.loose
  /\ MyWeldPackZip \in DOMAIN pre.loose
  /\ AZip \in DOMAIN Held

\* C2: when run_weld is called, the pack paths are exactly the paths of the
\* files of the holding area: each names a file inside dir/unwelded and
\* every file of dir/unwelded is named.
C2_PacksAreHeldFiles ==
  wpc = "run_weld" =>
    /\ \A p \in packs :
         \E x \in DOMAIN Held : p = joinpath(joinpath(wdir, UnweldedName), x)
    /\ \A x \in DOMAIN Held : joinpath(joinpath(wdir, UnweldedName), x) \in packs

\* C3: once the hook handler has returned and the process has ended, exactly
\* one set_result was printed and it is the last line; before that no
\* set_result was printed.
C3_OneSetResultLast ==
  /\ pc = "done" =>
       /\ MethodCount("set_result") = 1
       /\ events[Len(events)].method = "set_result"
  /\ pc # "done" => MethodCount("set_result") = 0

C3_Witness ==
  /\ pc = "done"
  /\ Len(events) = 5
  /\ passes >= 2

\* C4: on the client side with no datapack_folder and a saves directory,
\* after path resolution datapack_dirs holds one directory per immediate
\* subdirectory of saves, resourcepack_dirs is [game_dir/resourcepacks], and
\* the resolver raised nothing.
C4_ClientSaves ==
  (/\ FullRun
   /\ argv.arg.side = "client"
   /\ argv.arg.datapack_folder = <<>>
   /\ saves.exists
   /\ pc \notin {"run", "parse", "start", "resolve"})
  => /\ {datapack_dirs[i] : i \in 1..Len(datapack_dirs)}
          = {joinpath(SavesDir, n) : n \in ImmediateSubdirs(saves)}
     /\ Len(datapack_dirs) = Cardinality(ImmediateSubdirs(saves))
     /\ resourcepack_dirs = <<Resourcepacks>>
     /\ exc \notin {"AttributeError", "StopIteration"}

\* C5: a file that was both in the holding area and loose when the pass
\* began is, after the pass, in the holding area with the content of the
\* loose file, and is not loose.
C5_Override ==
  wpc = "returned" =>
    \A x \in DOMAIN pre.held \cap DOMAIN pre.loose :
      /\ x \in DOMAIN Held
      /\ Held[x] = pre.loose[x]
      /\ x \notin DOMAIN Loose

C5_Witness ==
  /\ wpc = "returned"
  /\ AZip \in DOMAIN pre.held \cap DOMAIN pre.loose
  /\ pre.held[AZip] # pre.loose[AZip]
  /\ Held[AZip] # pre.held[AZip]

\* C6: a pass that begins in the state in which the previous pass on the
\* same directory ended leaves the holding area and the merged artifact as
\* that previous pass left them.
C6_Idempotent ==
  (wpc = "returned" /\ follows) =>
    /\ Held = pre.held
    /\ WeldPackZip \in DOMAIN pre.loose
    /\ Loose[WeldPackZip] = pre.loose[WeldPackZip]

C6_Witness ==
  /\ wpc = "returned"
  /\ follows
  /\ passes = 2
  /\ Cardinality(DOMAIN Held) >= 2

\* C7: for the recognized hook with update_depth "shallow" the file system
\* is never changed, no line other than set_result is printed, and when the
\* process has ended exactly one set_result was printed.
C7_ShallowNoOp ==
  (argv.hook = RecognizedHook /\ argv.arg.ok /\ argv.arg.update_depth = "shallow") =>
    /\ fs = fs0
    /\ \A i \in 1..Len(events) : events[i].method = "set_result"
    /\ pc = "done" => Len(events) = 1
    /\ pc # "done" => events = <<>>

C7_Witness ==
  /\ argv.hook = RecognizedHook
  /\ argv.arg.ok
  /\ argv.arg.update_depth = "shallow"
  /\ pc = "done"
  /\ \E d \in ContentDirs : fs0[d].loose # NoFiles

\* C8: for a hook other than on_instance_setup nothing but the final
\* set_result is printed, the file system is never changed, weld_dir is
\* never called and the context is never read (no exception, whatever the
\* context).
C8_UnrecognizedHook ==
  argv.hook # RecognizedHook =>
    /\ fs = fs0
    /\ pc \in {"run", "set_result", "done"}
    /\ exc = ""
    /\ wpc = "idle"
    /\ passes = 0
    /\ events = IF pc = "done" THEN <<output("set_result", SetResultData)>> ELSE <<>>

C8_Witness ==
  /\ argv.hook # RecognizedHook
  /\ ~argv.arg.ok
  /\ pc = "done"
  /\ \E d \in ContentDirs : fs0[d].loose # NoFiles

\* C9 as stated: every set_result line is the sentinel followed by the JSON
\* object whose member set_result is the object {main_class_override: null,
\* jar_path_override: null, classpath_extension: []}.
C9_Original ==
  \A i \in 1..Len(events) :
    events[i].method = "set_result" =>
      events[i].line = "%_{\"set_result\": {\"main_class_override\": null, \"jar_path_override\": null, \"classpath_extension\": []}}"

\* C9 amended: every set_result line is the sentinel followed by the JSON
\* object whose member set_result is a JSON string, the string being the
\* JSON text of that object.
C9_PayloadIsJsonString ==
  \A i \in 1..Len(events) :
    events[i].method = "set_result" =>
      events[i].line = "%_{\"set_result\": \"{\\\"main_class_override\\\": null, \\\"jar_path_override\\\": null, \\\"classpath_extension\\\": []}\"}"

C9_Witness ==
  /\ pc = "done"
  /\ \E i \in 1..Len(events) : events[i].method = "set_result"

RECURSIVE WeldLog(_)
\* the calls of weld_dir, one after the other, each returning before the next
WeldLog(dirs) ==
  IF dirs = <<>> THEN <<>>
  ELSE <<LogWeld("weld_begin", Head(dirs)), LogWeld("weld_end", Head(dirs))>> \o WeldLog(Tail(dirs))

LineEntry(line) == [op |-> "emit", line |-> line, dir |-> <<>>]

ExpectedLog(dd, rd) ==
  <<LineEntry("%_\"start_process\""),
    LineEntry("%_{\"message\": {\"contents\": {\"StartProcess\": \"Welding packs\"}, \"level\": \"important\"}}")>>
  \o WeldLog(dd) \o WeldLog(rd)
  \o <<LineEntry("%_{\"message\": {\"contents\": {\"Success\": \"Packs welded\"}, \"level\": \"important\"}}"),
       LineEntry("%_\"end_process\"")>>

\* the line the module body prints after run()
FinalEntry == LogEmit(output("set_result", SetResultData))

WeldCount(d) == Cardinality({i \in 1..Len(log) : log[i] = LogWeld("weld_begin", d)})

\* the order of a full run: start_process, "Welding packs", a whole call of
\* weld_dir per entry of datapack_dirs in order, then per entry of
\* resourcepack_dirs, the success message, end_process
C10_Order ==
  FullRun =>
    /\ IsPrefix(log, Append(ExpectedLog(datapack_dirs, resourcepack_dirs), FinalEntry))
    /\ pc = "set_result" => log = ExpectedLog(datapack_dirs, resourcepack_dirs)
    /\ pc = "done" => log = Append(ExpectedLog(datapack_dirs, resourcepack_dirs), FinalEntry)
    /\ pc \in {"run", "parse", "start"} => log = <<>>

\* C10 as stated: that order, and every directory merged exactly once.
C10_Original ==
  /\ C10_Order
  /\ (FullRun /\ pc = "set_result") =>
       \A d \in ContentDirs :
         (\E i \in 1..Len(log) : log[i].dir = d) => WeldCount(d) = 1

\* C10 amended: that order, with one call of weld_dir per entry of the two
\* lists; a directory is merged once, except the resourcepacks directory
\* when datapack_folder names it, which is merged twice.
C10_OrderPerEntry ==
  /\ C10_Order
  /\ (FullRun /\ pc = "set_result") =>
       /\ passes = Len(datapack_dirs) + Len(resourcepack_dirs)
       /\ \A d \in ContentDirs :
            WeldCount(d) = Cardinality({i \in 1..Len(datapack_dirs) : datapack_dirs[i] = d})
                           + Cardinality({i \in 1..Len(resourcepack_dirs) : resourcepack_dirs[i] = d})
       /\ \A d \in ContentDirs :
            WeldCount(d) > 1 =>
              d = Resourcepacks /\ argv.arg.datapack_folder = <<Name("resourcepacks")>>

C10_Witness ==
  /\ FullRun
  /\ pc = "set_result"
  /\ Len(datapack_dirs) = 1
  /\ datapack_dirs[1] # resourcepack_dirs[1]
  /\ Len(log) = 8

\* the merged artifact of directory state D, NoContent when there is none
ArtifactOf(D) == IF WeldPackZip \in DOMAIN D.loose THEN D.loose[WeldPackZip] ELSE NoContent

SuccessLine == "%_{\"message\": {\"contents\": {\"Success\": \"Packs welded\"}, \"level\": \"important\"}}"

\* C11: when run_weld has raised, every file the call moved into the
\* holding area is there with its content, every file that was there before
\* is still there, and the merged artifact is as it was when the call began
\* (absent if it was absent).
C11_FailureKeepsQuarantine ==
  (wpc = "raised" /\ exc = "WeldError") =>
    /\ \A n \in DOMAIN pre.loose :
         ~HasWeldPack(n) => n \in DOMAIN Held /\ Held[n] = pre.loose[n] /\ n \notin DOMAIN Loose
    /\ DOMAIN pre.held \subseteq DOMAIN Held
    /\ (WeldPackZip \in DOMAIN Loose) = (WeldPackZip \in DOMAIN pre.loose)
    /\ ArtifactOf(fs[wdir]) = ArtifactOf(pre)

C11_Witness ==
  /\ wpc = "raised"
  /\ exc = "WeldError"
  /\ AZip \in DOMAIN pre.loose
  /\ AZip \in DOMAIN Held
  /\ ArtifactOf(pre).kind = "merged"

\* C12: once an exception has left run() (malformed context, path
\* resolution, a file operation of weld_dir, run_weld), neither the success
\* message nor end_process is ever printed, and nothing more is printed.
C12_NoSuccessAfterFailure ==
  exc # "" =>
    /\ \A i \in 1..Len(events) :
         events[i].method # "end_process" /\ events[i].line # SuccessLine
    /\ pc = "crashed"
    /\ Len(events) \in {0, 2}

C12_Witness ==
  /\ pc = "crashed"
  /\ exc = "PermissionError"
  /\ passes = 2
  /\ Len(events) = 2

PastResolve == pc \notin {"run", "parse", "start", "resolve"}

ResolverRaised == exc \in {"AttributeError", "StopIteration"}

\* C13: when datapack_folder is set, path resolution raises nothing and
\* datapack_dirs is the one directory game_dir/datapack_folder, on the client
\* and on the server, whatever the saves directory holds.
C13_ExplicitFolder ==
  (FullRun /\ argv.arg.datapack_folder # <<>> /\ PastResolve) =>
    /\ ~ResolverRaised
    /\ Len(datapack_dirs) = 1
    /\ argv.arg.datapack_folder = <<<<"dp">>>> => datapack_dirs[1] = <<<<"game">>, <<"dp">>>>
    /\ argv.arg.datapack_folder = <<<<"resourcepacks">>>>
         => datapack_dirs[1] = <<<<"game">>, <<"resourcepacks">>>>

C13_Witness ==
  /\ FullRun
  /\ argv.arg.datapack_folder = <<<<"dp">>>>
  /\ argv.arg.side = "client"
  /\ ImmediateSubdirs(saves) # {}
  /\ pc = "weld_datapacks"
  /\ datapack_dirs = <<OverrideDir>>

\* C14: on the server side with no datapack_folder, path resolution raises
\* nothing, datapack_dirs is [game_dir/world/datapacks] and resourcepack_dirs
\* is [game_dir/resourcepacks], whatever the saves directory holds.
C14_ServerDirs ==
  (FullRun /\ argv.arg.datapack_folder = <<>> /\ argv.arg.side = "server" /\ PastResolve) =>
    /\ ~ResolverRaised
    /\ datapack_dirs = << <<<<"game">>, <<"world">>, <<"datapacks">>>> >>
    /\ resourcepack_dirs = << <<<<"game">>, <<"resourcepacks">>>> >>

C14_Witness ==
  /\ FullRun
  /\ argv.arg.datapack_folder = <<>>
  /\ argv.arg.side = "server"
  /\ ImmediateSubdirs(saves) # {}
  /\ pc = "weld_datapacks"
  /\ datapack_dirs = <<WorldDatapacks>>

\* C15 as stated: when the quarantine loop is over and run_weld is about to
\* be called, the entries of the content directory are the holding area and
\* possibly weld_pack.zip, nothing else.
C15_Original ==
  wpc = "run_weld" => listdir(fs[wdir]) \subseteq {UnweldedName, WeldPackZip}

\* C15 amended: at that point the entries of the content directory are the
\* holding area, the directories that were there, and the files whose name
\* contains "weld_pack"; no other regular file is left.
C15_AfterReconciliation ==
  wpc = "run_weld" =>
    /\ UnweldedName \in listdir(fs[wdir])
    /\ \A e \in listdir(fs[wdir]) :
         \/ e = UnweldedName
         \/ e \in pre.dirs
         \/ e \in DOMAIN pre.loose /\ HasWeldPack(e)

C15_Witness ==
  /\ wpc = "run_weld"
  /\ pre.dirs # {}
  /\ pre.dirs \subseteq listdir(fs[wdir])
  /\ AZip \in DOMAIN pre.loose

\* C16: once weld_dir is past its first step the holding area exists under
\* the directory, whatever the directory was (missing included), and the
\* call has gone on to the listing.
C16_HoldingAreaEnsured ==
  wpc \notin {"idle", "mkdir"} =>
    /\ fs[wdir].unwelded
    /\ exc # "FileNotFoundError"

InQuarantine == wpc \in {"listdir", "loop", "rename", "run_weld"}

\* C17: over any sequence of passes the sub-directories of the content
\* directory stay as they were and neither weld_pack.zip nor the name of
\* the holding area is ever a file of the holding area; while the quarantine
\* step runs the holding area stays in place and weld_pack.zip, when it was
\* there, stays loose with its content.
C17_ReservedUntouched ==
  /\ fs[HarnessDir].dirs = fs0[HarnessDir].dirs
  /\ WeldPackZip \notin DOMAIN fs[HarnessDir].held
  /\ UnweldedName \notin DOMAIN fs[HarnessDir].held
  /\ InQuarantine =>
       /\ fs[wdir].unwelded
       /\ UnweldedName \in listdir(fs[wdir])
       /\ fs[wdir].dirs = pre.dirs
       /\ (WeldPackZip \in DOMAIN Loose) = (WeldPackZip \in DOMAIN pre.loose)
       /\ ArtifactOf(fs[wdir]) = ArtifactOf(pre)

C17_Witness ==
  /\ wpc = "run_weld"
  /\ passes = 2
  /\ pre.dirs # {}
  /\ pre.unwelded
  /\ WeldPackZip \in DOMAIN pre.loose
  /\ AZip \in DOMAIN pre.loose
  /\ AZip \in DOMAIN Held

PassEnded == wpc \in {"run_weld", "returned"} \/ (wpc = "raised" /\ exc = "WeldError")

\* C18: at the end of a pass every file name that was in the holding area
\* when the pass started is still in it, and a holding area that existed at
\* the start of the run, at the start of a pass or at the end of an earlier
\* pass still exists.
C18_HoldingAreaGrows ==
  /\ PassEnded => DOMAIN pre.held \subseteq DOMAIN Held
  /\ fs0[HarnessDir].unwelded => fs[HarnessDir].unwelded
  /\ (passes >= 1 /\ pre.unwelded) => fs[HarnessDir].unwelded
  /\ lastEnd.valid => fs[HarnessDir].unwelded

C18_Witness ==
  /\ wpc = "returned"
  /\ passes = 2
  /\ edits = 1
  /\ pre.held # NoFiles
  /\ DOMAIN pre.held # DOMAIN Held
  /\ AZip \in DOMAIN pre.held
  /\ BZip \in DOMAIN pre.loose
  /\ WeldPackZip \notin DOMAIN pre.loose

\* what one pass without failure makes of the directory state D: the
\* files whose name does not contain "weld_pack" are in the holding area,
\* over what was there, and the merge of the holding area is saved
PassResult(D) ==
  LET moved == {n \in DOMAIN D.loose : ~HasWeldPack(n)}
      after == [exists |-> TRUE,
                unwelded |-> TRUE,
                loose |-> [n \in DOMAIN D.loose \ moved |-> D.loose[n]],
                held |-> [n \in DOMAIN D.held \cup moved |->
                            IF n \in moved THEN D.loose[n] ELSE D.held[n]],
                dirs |-> D.dirs]
      F == [d \in ContentDirs |-> IF d = HarnessDir THEN after ELSE MissingDir]
  IN  save_artifact(after, run_weld(F, PackPaths(HarnessDir, after)))

\* C19: a pass that returns after the pass or passes before it on the same
\* directory failed in run_weld leaves the holding area and the merged
\* artifact that one pass without failure makes of the directory as it was
\* before the first of them.
C19_RetryAfterFailure ==
  (wpc = "returned" /\ origin.valid) =>
    /\ Held = PassResult(origin.rec).held
    /\ ArtifactOf(fs[wdir]) = ArtifactOf(PassResult(origin.rec))
    /\ ArtifactOf(fs[wdir]).kind = "merged"

C19_Witness ==
  /\ wpc = "returned"
  /\ origin.valid
  /\ passes = 2
  /\ AZip \in DOMAIN origin.rec.loose
  /\ AZip \in DOMAIN origin.rec.held
  /\ Held[AZip] = origin.rec.loose[AZip]
  /\ Held[AZip] # origin.rec.held[AZip]

\* a pass without failure ends in PassResult of the state it started from
PassIsPassResult == wpc = "returned" => fs[wdir] = PassResult(pre)

\* C20: at every state of a pass, the state between os.remove and os.rename
\* included, every file name that was loose or in the holding area when the
\* pass started is loose or in the holding area.
C20_NoNameMissing ==
  (passes >= 1 /\ wpc # "idle") =>
    \A n \in DOMAIN pre.loose \cup DOMAIN pre.held :
      n \in DOMAIN Loose \cup DOMAIN Held

C20_Witness ==
  /\ wpc = "raised"
  /\ exc = "PermissionError"
  /\ cur \in DOMAIN pre.held
  /\ cur \in DOMAIN Loose
  /\ cur \notin DOMAIN Held

====
